---------------------------- MODULE Spec2Model ----------------------------
(***************************************************************************)
(* Model of child_weight.cpp: the Child class (dynamic weight model for    *)
(* children, Hall et al.) and its fixed-step RK4 driver Child::rk4.        *)
(*                                                                         *)
(* Numbers.  The program computes in C++ double.  Two renderings are used: *)
(*  - quantities that decide control flow or array indices (ages, elapsed  *)
(*    time, dt, days, the step count, the intake row index, the reference  *)
(*    table row) are IEEE-754 binary64 values, every operation rounded to  *)
(*    nearest-even, bit for bit as the machine does it;                    *)
(*  - magnitudes that only flow through arithmetic (masses in kg, energies *)
(*    in kcal, model coefficients) are fixed-point numbers with Scale      *)
(*    units per unit, products and quotients truncated.                    *)
(***************************************************************************)
EXTENDS Integers, Sequences, FiniteSets, TLC

(***************************************************************************)
(* Natural numbers of any size: little-endian sequences of limbs in base   *)
(* Radix (the mantissa of a double does not fit a 32-bit integer).         *)
(***************************************************************************)
Radix == 32768

LimbBits == 15

Pow2(n) == 2^n

RECURSIVE BTrim(_)
BTrim(x) ==
  IF x = <<>> THEN x
  ELSE IF x[Len(x)] = 0 THEN BTrim(SubSeq(x, 1, Len(x) - 1)) ELSE x

RECURSIVE BFromNat(_)
BFromNat(n) == IF n = 0 THEN <<>> ELSE <<n % Radix>> \o BFromNat(n \div Radix)

RECURSIVE BToNat(_)
BToNat(x) == IF x = <<>> THEN 0 ELSE x[1] + Radix * BToNat(Tail(x))

RECURSIVE BCmpFrom(_, _, _)
BCmpFrom(x, y, k) ==
  IF k = 0 THEN 0
  ELSE IF x[k] > y[k] THEN 1
  ELSE IF x[k] < y[k] THEN -1
  ELSE BCmpFrom(x, y, k - 1)

\* -1, 0, 1 as x <, =, > y (both trimmed)
BCmp(x, y) ==
  IF Len(x) > Len(y) THEN 1
  ELSE IF Len(x) < Len(y) THEN -1
  ELSE BCmpFrom(x, y, Len(x))

RECURSIVE BAddC(_, _, _)
BAddC(x, y, c) ==
  IF x = <<>> /\ y = <<>> THEN (IF c = 0 THEN <<>> ELSE <<c>>)
  ELSE LET a == IF x = <<>> THEN 0 ELSE x[1]
           b == IF y = <<>> THEN 0 ELSE y[1]
           t == a + b + c
       IN  <<t % Radix>> \o
           BAddC(IF x = <<>> THEN x ELSE Tail(x),
                 IF y = <<>> THEN y ELSE Tail(y), t \div Radix)

BAdd(x, y) == BAddC(x, y, 0)

RECURSIVE BSubC(_, _, _)
BSubC(x, y, c) ==
  IF x = <<>> THEN <<>>
  ELSE LET b == IF y = <<>> THEN 0 ELSE y[1]
           t == x[1] - b - c
       IN  <<IF t < 0 THEN t + Radix ELSE t>> \o
           BSubC(Tail(x), IF y = <<>> THEN y ELSE Tail(y),
                 IF t < 0 THEN 1 ELSE 0)

\* x - y for x >= y
BSub(x, y) == BTrim(BSubC(x, y, 0))

RECURSIVE BMulSmallC(_, _, _)
BMulSmallC(x, k, c) ==
  IF x = <<>> THEN (IF c = 0 THEN <<>> ELSE BFromNat(c))
  ELSE LET t == x[1] * k + c
       IN  <<t % Radix>> \o BMulSmallC(Tail(x), k, t \div Radix)

\* x * k for 0 <= k <= Radix
BMulSmall(x, k) == IF k = 0 THEN <<>> ELSE BMulSmallC(x, k, 0)

RECURSIVE BMul(_, _)
BMul(x, y) ==
  IF y = <<>> \/ x = <<>> THEN <<>>
  ELSE BAdd(BMulSmall(x, y[1]),
            LET r == BMul(x, Tail(y)) IN IF r = <<>> THEN r ELSE <<0>> \o r)

RECURSIVE BDivSmallR(_, _, _)
\* quotient limbs (little-endian) of x by k, scanning from the top limb
BDivSmallR(x, k, n) ==
  IF n = 0 THEN [q |-> <<>>, r |-> 0]
  ELSE LET hi == BDivSmallR(x, k, n - 1)
           t  == hi.r * Radix + x[Len(x) - n + 1]
       IN  [q |-> <<t \div k>> \o hi.q, r |-> t % k]

\* floor(x / k) and x mod k for 1 <= k <= Radix
BDivSmall(x, k) ==
  LET d == BDivSmallR(x, k, Len(x)) IN [q |-> BTrim(d.q), r |-> d.r]

RECURSIVE Zeros(_)
Zeros(n) == IF n = 0 THEN <<>> ELSE <<0>> \o Zeros(n - 1)

\* x * 2^n
BShl(x, n) ==
  IF x = <<>> THEN x
  ELSE Zeros(n \div LimbBits) \o BMulSmall(x, Pow2(n % LimbBits))

\* floor(x / 2^n)
BShr(x, n) ==
  LET q == n \div LimbBits
  IN  IF q >= Len(x) THEN <<>>
      ELSE BDivSmall(SubSeq(x, q + 1, Len(x)), Pow2(n % LimbBits)).q

\* x mod 2^n # 0
BLowNonzero(x, n) ==
  LET q == n \div LimbBits
  IN  \/ \E k \in 1..Len(x) : k <= q /\ x[k] # 0
      \/ q < Len(x) /\ x[q + 1] % Pow2(n % LimbBits) # 0

\* bit k of x (bit 0 the lowest)
BBit(x, k) ==
  LET q == k \div LimbBits
  IN  IF q >= Len(x) THEN 0 ELSE (x[q + 1] \div Pow2(k % LimbBits)) % 2

\* the number of bits of a limb: the powers of two that are not above it
NatBitLen(n) == Cardinality({k \in 0..(LimbBits - 1) : Pow2(k) <= n})

BBitLen(x) ==
  IF x = <<>> THEN 0 ELSE LimbBits * (Len(x) - 1) + NatBitLen(x[Len(x)])

\* the largest d with d * y <= r, for r < Radix * y and a divisor whose
\* top limb is Radix / 2 or more: the top two limbs of r over the top limb
\* of y give d, d + 1 or d + 2
BDigit(r, y) ==
  LET L    == Len(y)
      top  == (IF Len(r) > L THEN r[L + 1] * Radix ELSE 0) +
              (IF Len(r) >= L THEN r[L] ELSE 0)
      qhat == IF top \div y[L] < Radix THEN top \div y[L] ELSE Radix - 1
  IN  IF BCmp(BMulSmall(y, qhat), r) <= 0 THEN qhat
      ELSE IF BCmp(BMulSmall(y, qhat - 1), r) <= 0 THEN qhat - 1
      ELSE qhat - 2

\* the quotient q with the digit d put below it, and what d leaves of r
BDivPut(y, q, r, d) ==
  [q |-> BTrim(<<d>> \o q), r |-> BSub(r, BMulSmall(y, d))]

\* one step of the long division: limb is brought down to the remainder of
\* the limbs above it, hi the quotient and remainder of those
BDivStep(y, limb, hi) ==
  IF hi.r = <<>> /\ limb = 0 THEN BDivPut(y, hi.q, <<>>, 0)
  ELSE BDivPut(y, hi.q, <<limb>> \o hi.r, BDigit(<<limb>> \o hi.r, y))

RECURSIVE BDivLimbs(_, _, _)
\* long division of the top n limbs of x by y, one quotient limb at a time
\* (fewer limbs than y has are their own remainder)
BDivLimbs(x, y, n) ==
  IF n < Len(y)
  THEN [q |-> <<>>, r |-> BTrim(SubSeq(x, Len(x) - n + 1, Len(x)))]
  ELSE BDivStep(y, x[Len(x) - n + 1], BDivLimbs(x, y, n - 1))

\* the division of x * 2^sh by y * 2^sh, which has the quotient of x by y
BDivShifted(x, y, sh) ==
  LET d == BDivLimbs(BShl(x, sh), BShl(y, sh), Len(BShl(x, sh)))
  IN  [q |-> d.q, r |-> BShr(d.r, sh)]

\* floor(x / y) and x mod y for y # 0, with y shifted to fill its top limb
BDivMod(x, y) == BDivShifted(x, y, LimbBits - NatBitLen(y[Len(y)]))


(***************************************************************************)
(* IEEE-754 binary64 ("double").  A value is [s, m, e]: (-1)^s * m * 2^e   *)
(* with m of exactly MantBits bits, or m = <<>> for zero.  Every operation *)
(* rounds its exact result to nearest, ties to even.  Infinities, NaN and  *)
(* subnormals do not arise from the inputs considered (a zero divisor is   *)
(* handled by the caller).                                                 *)
(***************************************************************************)
MantBits == 53

FZero == [s |-> 0, m |-> <<>>, e |-> 0]

FIsZero(a) == a.m = <<>>

\* the mantissa q at exponent e, renormalised if rounding carried out
FPack(s, q, e) ==
  IF BBitLen(q) > MantBits THEN [s |-> s, m |-> BShr(q, 1), e |-> e + 1]
  ELSE [s |-> s, m |-> q, e |-> e]

\* round to nearest, ties to even: q is m without its low sh bits
FRoundUp(m, sh, st, q) ==
  /\ BBit(m, sh - 1) = 1
  /\ (st \/ BLowNonzero(m, sh - 1) \/ BBit(q, 0) = 1)

FCut(s, m, e, st, sh, q) ==
  FPack(s, IF FRoundUp(m, sh, st, q) THEN BAddC(q, <<>>, 1) ELSE q, e + sh)

FRoundLen(s, m, e, st, L) ==
  IF L <= MantBits
  THEN [s |-> s, m |-> BShl(m, MantBits - L), e |-> e - (MantBits - L)]
  ELSE FCut(s, m, e, st, L - MantBits, BShr(m, L - MantBits))

\* the double nearest to (-1)^s * m * 2^e, plus a nonzero tail below the
\* last bit of m when st
FRound(s, m, e, st) ==
  IF m = <<>> THEN FZero ELSE FRoundLen(s, m, e, st, BBitLen(m))

FromInt(n) ==
  FRound(IF n < 0 THEN 1 ELSE 0, BFromNat(IF n < 0 THEN -n ELSE n), 0, FALSE)

\* a * 2^k (exact)
FScale(a, k) == IF FIsZero(a) THEN a ELSE [a EXCEPT !.e = @ + k]

FNeg(a) == IF FIsZero(a) THEN a ELSE [a EXCEPT !.s = 1 - @]

\* -1, 0, 1 as |a| <, =, > |b|
FCmpAbs(a, b) ==
  IF FIsZero(a) THEN (IF FIsZero(b) THEN 0 ELSE -1)
  ELSE IF FIsZero(b) THEN 1
  ELSE IF a.e > b.e THEN 1
  ELSE IF a.e < b.e THEN -1
  ELSE BCmp(a.m, b.m)

\* -1, 0, 1 as a <, =, > b
FCmp(a, b) ==
  LET sa == IF FIsZero(a) THEN 0 ELSE IF a.s = 1 THEN -1 ELSE 1
      sb == IF FIsZero(b) THEN 0 ELSE IF b.s = 1 THEN -1 ELSE 1
  IN  IF sa # sb THEN (IF sa > sb THEN 1 ELSE -1)
      ELSE IF sa = 0 THEN 0
      ELSE sa * FCmpAbs(a, b)

FLt(a, b) == FCmp(a, b) < 0
FLe(a, b) == FCmp(a, b) <= 0
FGe(a, b) == FCmp(a, b) >= 0
FGt(a, b) == FCmp(a, b) > 0

\* the sum of two signed magnitudes at the same exponent
FSignedSum(sb, mb, ss, ms, c) ==
  IF sb = ss THEN [s |-> sb, m |-> BAdd(mb, ms)]
  ELSE IF c = 0 THEN [s |-> 0, m |-> <<>>]
  ELSE IF c > 0 THEN [s |-> sb, m |-> BSub(mb, ms)]
  ELSE [s |-> ss, m |-> BSub(ms, mb)]

FRoundSum(x, e) == FRound(x.s, x.m, e, FALSE)

FAddAligned(sb, mb, ss, ms, e) ==
  FRoundSum(FSignedSum(sb, mb, ss, ms, BCmp(mb, ms)), e)

\* big + sml for big.e >= sml.e
FAddOrdered(big, sml) ==
  IF big.e - sml.e > MantBits + 2
  THEN \* the smaller operand is below a quarter of the last place of the
       \* larger one: the sum rounds back to the larger one
       big
  ELSE FAddAligned(big.s, BShl(big.m, big.e - sml.e), sml.s, sml.m, sml.e)

FAdd(a, b) ==
  IF FIsZero(a) THEN b
  ELSE IF FIsZero(b) THEN a
  ELSE FAddOrdered(IF a.e >= b.e THEN a ELSE b, IF a.e >= b.e THEN b ELSE a)

FSub(a, b) == FAdd(a, FNeg(b))

FMul(a, b) ==
  IF FIsZero(a) \/ FIsZero(b) THEN FZero
  ELSE FRound((a.s + b.s) % 2, BMul(a.m, b.m), a.e + b.e, FALSE)

FRoundQuotient(s, d, e) == FRound(s, d.q, e, d.r # <<>>)

\* a / b for b # 0: the quotient of the mantissas to MantBits + 3 bits or
\* more, and whether a remainder is left
FDiv(a, b) ==
  IF FIsZero(a) THEN FZero
  ELSE FRoundQuotient((a.s + b.s) % 2,
                      BDivMod(BShl(a.m, MantBits + 3), b.m),
                      a.e - b.e - (MantBits + 3))

\* (int) floor(a), for |a| < 2^31
FFloor(a) ==
  IF FIsZero(a) THEN 0
  ELSE IF a.e >= 0 THEN (IF a.s = 1 THEN -1 ELSE 1) * BToNat(BShl(a.m, a.e))
  ELSE LET q == BToNat(BShr(a.m, -a.e))
           frac == BLowNonzero(a.m, -a.e)
       IN  IF a.s = 0 THEN q ELSE IF frac THEN -(q + 1) ELSE -q

\* a - floor(a) (exact in binary64)
FFrac(a) == FSub(a, FromInt(FFloor(a)))

(***************************************************************************)
(* Fixed-point magnitudes: an integer x stands for x / Scale.              *)
(***************************************************************************)
Scale == 10000

\* the decimal literal i.ffff
Dec(i, f) == i * Scale + f

\* the decimal literal n / 1000
Milli(n) == n * (Scale \div 1000)

Abs(x) == IF x < 0 THEN -x ELSE x

Sign(x) == IF x < 0 THEN -1 ELSE 1

\* a * b, truncated (the partial products keep within 32 bits)
MulFP(a, b) ==
  LET x  == Abs(a)
      y  == Abs(b)
      xq == x \div Scale
      xr == x % Scale
      yq == y \div Scale
      yr == y % Scale
  IN  Sign(a) * Sign(b) *
      (xq * yq * Scale + xq * yr + xr * yq + (xr * yr) \div Scale)

RECURSIVE DivDigits(_, _, _)
\* the digits of r / y below the unit, for 0 <= r < y
DivDigits(r, y, unit) ==
  IF unit = 1 THEN 0
  ELSE LET t == r * 10
       IN  (t \div y) * (unit \div 10) + DivDigits(t % y, y, unit \div 10)

\* a / b, truncated, for b # 0
DivFP(a, b) ==
  LET x == Abs(a)
      y == Abs(b)
  IN  Sign(a) * Sign(b) * ((x \div y) * Scale + DivDigits(x % y, y, Scale))

RECURSIVE ExpSeries(_, _, _)
\* sum of the terms f^n / n! from the given one on, for 0 <= f < 1
ExpSeries(f, term, n) ==
  IF term = 0 THEN 0
  ELSE term + ExpSeries(f, MulFP(term, f) \div n, n + 1)

RECURSIVE ExpInt(_)
\* e^k for a natural k
ExpInt(k) == IF k = 0 THEN Scale ELSE MulFP(ExpInt(k - 1), Dec(2, 7183))

\* exp(x) for 0 <= x; arguments above 12 do not arise and saturate
ExpPos(x) ==
  LET c == IF x > Dec(12, 0) THEN Dec(12, 0) ELSE x
  IN  MulFP(ExpInt(c \div Scale), ExpSeries(c % Scale, Scale, 1))

\* exp(x): below exp(-9) the result is under the resolution
ExpFP(x) ==
  IF x >= 0 THEN ExpPos(x)
  ELSE IF -x >= Dec(9, 0) THEN 0
  ELSE DivFP(Scale, ExpPos(-x))

RECURSIVE PowInt(_, _, _)
\* acc * x^n, one factor at a time (0 stays 0)
PowInt(x, n, acc) ==
  IF n = 0 \/ acc = 0 THEN acc ELSE PowInt(x, n - 1, MulFP(x, acc))

\* pow(x, y); the inputs considered only give integral exponents y >= 0
PowFP(x, y) == PowInt(x, y \div Scale, Scale)

\* the integer nearest to M * 2^e
NearestNat(M, e) ==
  IF e >= 0 THEN BToNat(BShl(M, e))
  ELSE BToNat(BShr(M, -e)) + BBit(M, -e - 1)

\* the fixed-point number nearest to the double a
ToFix(a) ==
  IF FIsZero(a) THEN 0
  ELSE (IF a.s = 1 THEN -1 ELSE 1) * NearestNat(BMulSmall(a.m, Scale), a.e)

(***************************************************************************)
(* The Child object.  Every member that the source holds as a              *)
(* NumericVector is a sequence indexed by individual, 1..nind (individual  *)
(* 0 of the source is index 1); an expression of Rcpp sugar over such      *)
(* vectors is computed individual by individual.                           *)
(***************************************************************************)
\* a sugar expression assigned to a NumericVector (or to a row or column of
\* a matrix): its elements are computed there and then
NumericVector(v) == SubSeq(v, 1, Len(v))

\* male * (1 - sex) + female * sex, elementwise
Blend(male, female, sex) ==
  [n \in 1..Len(sex) |-> MulFP(male, Scale - sex[n]) + MulFP(female, sex[n])]

\* Child::getParameters: the constants and the sex specific vectors
getParameters(age, sex) ==
  [rhoFM    |-> MulFP(Dec(9, 4000), Dec(1000, 0)),
   deltamin |-> Dec(10, 0),
   P        |-> Dec(12, 0),
   h        |-> Dec(10, 0),
   nind     |-> Len(age),
   ffm_beta0 |-> Blend(Dec(2, 9000), Dec(3, 8000), sex),
   ffm_beta1 |-> Blend(Dec(2, 9000), Dec(2, 3000), sex),
   fm_beta0  |-> Blend(Dec(1, 2000), Dec(0, 5600), sex),
   fm_beta1  |-> Blend(Dec(0, 4100), Dec(0, 7400), sex),
   K       |-> Blend(Dec(800, 0), Dec(700, 0), sex),
   deltamax  |-> Blend(Dec(19, 0), Dec(17, 0), sex),
   A       |-> Blend(Dec(3, 2000), Dec(2, 3000), sex),
   B       |-> Blend(Dec(9, 6000), Dec(8, 4000), sex),
   D       |-> Blend(Dec(10, 1000), Dec(1, 1000), sex),
   tA      |-> Blend(Dec(4, 7000), Dec(4, 5000), sex),
   tB      |-> Blend(Dec(12, 5000), Dec(11, 7000), sex),
   tD      |-> Blend(Dec(15, 0), Dec(16, 2000), sex),
   tauA    |-> Blend(Dec(2, 5000), Dec(1, 0), sex),
   tauB    |-> Blend(Dec(1, 0), Dec(0, 9000), sex),
   tauD    |-> Blend(Dec(1, 5000), Dec(0, 7000), sex),
   A_EB    |-> Blend(Dec(7, 2000), Dec(16, 5000), sex),
   B_EB    |-> Blend(Dec(30, 0), Dec(47, 0), sex),
   D_EB    |-> Blend(Dec(21, 0), Dec(41, 0), sex),
   tA_EB   |-> Blend(Dec(5, 6000), Dec(4, 8000), sex),
   tB_EB   |-> Blend(Dec(9, 8000), Dec(9, 1000), sex),
   tD_EB   |-> Blend(Dec(15, 0), Dec(13, 5000), sex),
   tauA_EB   |-> Blend(Dec(15, 0), Dec(7, 0), sex),
   tauB_EB   |-> Blend(Dec(1, 5000), Dec(1, 0), sex),
   tauD_EB   |-> Blend(Dec(2, 0), Dec(1, 5000), sex),
   A1      |-> Blend(Dec(3, 2000), Dec(2, 3000), sex),
   B1      |-> Blend(Dec(9, 6000), Dec(8, 4000), sex),
   D1      |-> Blend(Dec(10, 0), Dec(1, 1000), sex),
   tA1     |-> Blend(Dec(4, 7000), Dec(4, 5000), sex),
   tB1     |-> Blend(Dec(12, 5000), Dec(11, 7000), sex),
   tD1     |-> Blend(Dec(15, 0), Dec(16, 0), sex),
   tauA1   |-> Blend(Dec(1, 0), Dec(1, 0), sex),
   tauB1   |-> Blend(Dec(0, 9400), Dec(0, 9400), sex),
   tauD1   |-> Blend(Dec(0, 6900), Dec(0, 6900), sex)]

NoMatrix == <<>>

NoLogistic == [K |-> 0, Q |-> 0, A |-> 0, B |-> 0, nu |-> 0, C |-> 0]

\* Child::Child (energy matrix) and Child::build
ChildMatrix(input_age, input_sex, input_bmiCat, input_FFM, input_FM, input_EIntake, input_dt, checkValues) ==
  [age |-> input_age, sex |-> input_sex, bmiCat |-> input_bmiCat,
   FM |-> input_FM, FFM |-> input_FFM, dt |-> input_dt,
   EIntake |-> input_EIntake, logistic |-> NoLogistic,
   check |-> checkValues, generalized_logistic |-> FALSE,
   par |-> getParameters(input_age, input_sex),
   nind |-> Len(input_age)]

\* Child::Child (Richards curve) and Child::build
ChildLogistic(input_age, input_sex, input_bmiCat, input_FFM, input_FM, input_K, input_Q, input_A, input_B, input_nu, input_C, input_dt, checkValues) ==
  [age |-> input_age, sex |-> input_sex, bmiCat |-> input_bmiCat,
   FM |-> input_FM, FFM |-> input_FFM, dt |-> input_dt,
   EIntake |-> NoMatrix,
   logistic |-> [K |-> input_K, Q |-> input_Q, A |-> input_A,
                 B |-> input_B, nu |-> input_nu, C |-> input_C],
   check |-> checkValues, generalized_logistic |-> TRUE,
   par |-> getParameters(input_age, input_sex),
   nind |-> Len(input_age)]

\* Child::general_ode for one individual
general_ode(t, iA, iB, iD, itA, itB, itD, itauA, itauB, itauD) ==
  MulFP(iA, ExpFP(DivFP(-(t - itA), itauA))) +
  MulFP(iB, ExpFP(MulFP(-Dec(0, 5000),
                        PowFP(DivFP(t - itB, itauB), Dec(2, 0))))) +
  MulFP(iD, ExpFP(MulFP(-Dec(0, 5000),
                        PowFP(DivFP(t - itD, itauD), Dec(2, 0)))))

Growth_dynamic(c, t) ==
  LET q == c.par
      f(n) == general_ode(ToFix(t[n]), q.A[n], q.B[n], q.D[n], q.tA[n],
                          q.tB[n], q.tD[n], q.tauA[n], q.tauB[n], q.tauD[n])
  IN  NumericVector([n \in 1..c.nind |-> f(n)])

Growth_impact(c, t) ==
  LET q == c.par
      f(n) == general_ode(ToFix(t[n]), q.A1[n], q.B1[n], q.D1[n], q.tA1[n],
                          q.tB1[n], q.tD1[n], q.tauA1[n], q.tauB1[n],
                          q.tauD1[n])
  IN  NumericVector([n \in 1..c.nind |-> f(n)])

EB_impact(c, t) ==
  LET q == c.par
      f(n) == general_ode(ToFix(t[n]), q.A_EB[n], q.B_EB[n], q.D_EB[n],
                          q.tA_EB[n], q.tB_EB[n], q.tD_EB[n], q.tauA_EB[n],
                          q.tauB_EB[n], q.tauD_EB[n])
  IN  NumericVector([n \in 1..c.nind |-> f(n)])

cRhoFFM(c, input_FFM) ==
  LET f(n) == MulFP(Dec(4, 3000), input_FFM[n]) + Dec(837, 0) IN NumericVector([n \in 1..c.nind |-> f(n)])

cP(c, FFM, FM) ==
  LET rhoFFM == cRhoFFM(c, FFM)
      C(n)   == DivFP(MulFP(Dec(10, 4000), rhoFFM[n]), c.par.rhoFM)
      f(n)   == DivFP(C(n), C(n) + FM[n])
  IN  NumericVector([n \in 1..c.nind |-> f(n)])

Delta(c, t) ==
  LET q == c.par
      f(n) == q.deltamin +
              MulFP(q.deltamax[n] - q.deltamin,
                    DivFP(Scale,
                          Scale + PowFP(DivFP(ToFix(t[n]), q.P), q.h)))
  IN  NumericVector([n \in 1..c.nind |-> f(n)])

(***************************************************************************)
(* The reference tables: one row per age 2..18; in a row, the male and the *)
(* female value of the categories 1 (under), 2 (normal), 3 (over),         *)
(* 4 (obese), in thousandths.                                              *)
(***************************************************************************)
ffm_ref_data ==
  << <<10134,  9477, 10134,  9477, 10134,  9477, 10134,  9477>>,
     <<12099, 11494, 12099, 11494, 12099, 11494, 12099, 11494>>,
     <<14000, 13200, 14000, 13200, 14000, 13200, 14000, 13200>>,
     <<13540, 12450, 14850, 13780, 16210, 15710, 18370, 18810>>,
     <<15680, 12690, 16090, 14950, 17970, 17540, 21240, 20160>>,
     <<18850, 14420, 17840, 17130, 20140, 20150, 24470, 23310>>,
     <<19080, 15980, 19980, 18510, 23460, 22860, 28090, 26660>>,
     <<20230, 19520, 22490, 20970, 25960, 25510, 30820, 30430>>,
     <<20370, 20120, 24890, 24040, 29200, 28860, 34860, 32190>>,
     <<21890, 25150, 26920, 27030, 32760, 34250, 37890, 38150>>,
     <<25600, 26630, 29910, 30500, 37160, 36510, 43620, 42630>>,
     <<30520, 26470, 34820, 34590, 43110, 40200, 47030, 45310>>,
     <<31050, 29630, 39960, 36490, 45870, 41330, 52540, 46580>>,
     <<36280, 37050, 43250, 38770, 49940, 42440, 55780, 47640>>,
     <<41040, 34600, 45410, 38450, 53660, 44300, 59450, 49830>>,
     <<44750, 36610, 47550, 39810, 55590, 44430, 61070, 48590>>,
     <<41590, 36380, 48670, 41010, 56700, 46730, 62520, 49890>> >>

fm_ref_data ==
  << << 2456,  2433,  2456,  2433,  2456,  2433,  2456,  2433>>,
     << 2576,  2606,  2576,  2606,  2576,  2606,  2576,  2606>>,
     << 2700,  2800,  2700,  2800,  2700,  2800,  2700,  2800>>,
     << 2050,  2330,  3100,  3720,  4130,  5190,  5600,  7580>>,
     << 2130,  2330,  3230,  3800,  4430,  5670,  6910,  8270>>,
     << 2360,  2380,  3490,  4200,  5080,  6500,  8050,  9600>>,
     << 2490,  2610,  3850,  4410,  5750,  7350,  9800, 11610>>,
     << 2490,  3360,  4250,  5000,  6410,  8390, 10410, 14260>>,
     << 2580,  3280,  4500,  5690,  7640,  9610, 13150, 15760>>,
     << 2900,  4160,  4890,  6440,  8920, 12130, 14560, 19700>>,
     << 2800,  4450,  5520,  7570, 10430, 13450, 18720, 21800>>,
     << 3650,  3630,  6860,  9410, 12580, 15760, 21700, 25100>>,
     << 3090,  5110,  7720, 10380, 14070, 16880, 23930, 29300>>,
     << 4330,  5790,  8710, 11070, 16440, 17060, 26630, 28890>>,
     << 4860,  5320,  9220, 10740, 17430, 18070, 28700, 30170>>,
     << 5290,  5680, 10040, 10780, 18740, 17860, 29780, 30290>>,
     << 4650,  6740, 10050, 11190, 18890, 19140, 34510, 29100>> >>

RefRowCount == 17

\* row r (0-based) of a reference matrix for individual n
RefCell(c, data, r, n) ==
  IF r < 0 \/ r >= RefRowCount
  THEN \* outside the table (the index is not checked): not a table value
       -Scale
  ELSE LET row == data[r + 1]
           sx  == c.sex[n]
           cat(k) == IF c.bmiCat[n] = k THEN Scale ELSE 0
           val(k) == MulFP(Milli(row[2 * k - 1]), Scale - sx) +
                     MulFP(Milli(row[2 * k]), sx)
       IN  MulFP(cat(1), val(1)) + MulFP(cat(2), val(2)) +
           MulFP(cat(3), val(3)) + MulFP(cat(4), val(4))

Max(a, b) == IF a >= b THEN a ELSE b

Min(a, b) == IF a <= b THEN a ELSE b

\* the rows and the weight the interpolation uses below 18 years
RefRowsAt(t, jmin) ==
  [jmin |-> jmin, jmax |-> Min(jmin + 1, 17), diff |-> FFrac(t)]

\* the rows without the lower limit of 2 years on floor(t)
RefRowsUnlimited(t) == RefRowsAt(t, FFloor(t) - 2)

RefRows(t) == RefRowsAt(t, Max(FFloor(t), 2) - 2)

\* the branch taken at 18 years and beyond
RefClamped(t) == FGe(t, FromInt(18))

RefInterpolate(c, data, j, n) ==
  RefCell(c, data, j.jmin, n) +
  MulFP(ToFix(j.diff),
        RefCell(c, data, j.jmax, n) - RefCell(c, data, j.jmin, n))

\* a lookup that interpolates at every age
RefValueInterpolated(c, data, t, n) ==
  RefInterpolate(c, data, RefRows(t), n)

RefValue(c, data, t, n) ==
  IF RefClamped(t) THEN RefCell(c, data, 16, n)
  ELSE RefInterpolate(c, data, RefRows(t), n)

FFMReference(c, t) ==
  LET f(n) == RefValue(c, ffm_ref_data, t[n], n) IN NumericVector([n \in 1..c.nind |-> f(n)])

FMReference(c, t) ==
  LET f(n) == RefValue(c, fm_ref_data, t[n], n) IN NumericVector([n \in 1..c.nind |-> f(n)])

IntakeReferenceSum(c, EB, FFMref, FMref, delta, growth, p, rhoFFM) ==
  LET f(n) == EB[n] + c.par.K[n] +
              MulFP(Dec(22, 4000) + delta[n], FFMref[n]) +
              MulFP(Dec(4, 5000) + delta[n], FMref[n]) +
              MulFP(DivFP(Dec(230, 0), rhoFFM[n]),
                    MulFP(p[n], EB[n]) + growth[n]) +
              MulFP(DivFP(Dec(180, 0), c.par.rhoFM),
                    MulFP(Scale - p[n], EB[n]) - growth[n])
  IN  NumericVector([n \in 1..c.nind |-> f(n)])

IntakeReferenceOf(c, EB, FFMref, FMref, delta, growth) ==
  IntakeReferenceSum(c, EB, FFMref, FMref, delta, growth,
                     cP(c, FFMref, FMref), cRhoFFM(c, FFMref))

IntakeReference(c, t) ==
  IntakeReferenceOf(c, EB_impact(c, t), FFMReference(c, t),
                    FMReference(c, t), Delta(c, t), Growth_dynamic(c, t))

(***************************************************************************)
(* A call either returns a value or raises an exception, which passes      *)
(* through every caller up to rk4's caller (nothing in the class catches). *)
(***************************************************************************)
Ok(v) == [err |-> "", v |-> v]

Raised(e) == [err |-> e, v |-> <<>>]

\* what Rcpp raises for a row or column proxy outside the matrix
index_out_of_bounds == "index_out_of_bounds"

\* a row lookup that moves an index outside the matrix to its nearest row
MatrixRowClamped(M, r) == Ok(M[Max(1, Min(r + 1, Len(M)))])

\* M(r, _): the row proxy checks 0 <= r < nrow before anything is read
MatrixRow(M, r) ==
  IF r < 0 \/ r >= Len(M) THEN Raised(index_out_of_bounds) ELSE Ok(M[r + 1])

\* the row of the intake matrix that Intake reads at ages t
timeval(c, t) ==
  FFloor(FDiv(FMul(FromInt(365), FSub(t[1], c.age[1])), c.dt))

\* Child::Intake
Intake(c, t) ==
  IF c.generalized_logistic
  THEN LET L == c.logistic
           f(n) == L.A +
                   DivFP(L.K - L.A,
                         PowFP(L.C + MulFP(L.Q, ExpFP(MulFP(-L.B, ToFix(t[n])))),
                               DivFP(Scale, L.nu)))
       IN  Ok(NumericVector([n \in 1..c.nind |-> f(n)]))
  ELSE MatrixRow(c.EIntake, timeval(c, t))

ExpenditureOf(c, FFM, FM, delta, Iref, Intakeval, p, rhoFFM, growth) ==
  LET wI(n)     == MulFP(DivFP(Dec(230, 0), rhoFFM[n]), p[n]) +
                   MulFP(DivFP(Dec(180, 0), c.par.rhoFM), Scale - p[n])
      Expend(n) == c.par.K[n] +
                   MulFP(Dec(22, 4000) + delta[n], FFM[n]) +
                   MulFP(Dec(4, 5000) + delta[n], FM[n]) +
                   MulFP(Dec(0, 2400), Intakeval[n] - Iref[n]) +
                   MulFP(wI(n), Intakeval[n]) +
                   MulFP(growth[n],
                         DivFP(Dec(230, 0), rhoFFM[n]) -
                         DivFP(Dec(180, 0), c.par.rhoFM))
      f(n)      == DivFP(Expend(n), Scale + wI(n))
  IN  NumericVector([n \in 1..c.nind |-> f(n)])

ExpenditureWith(c, t, FFM, FM, Ir) ==
  IF Ir.err # "" THEN Ir
  ELSE Ok(ExpenditureOf(c, FFM, FM, Delta(c, t), IntakeReference(c, t), Ir.v,
                        cP(c, FFM, FM), cRhoFFM(c, FFM), Growth_dynamic(c, t)))

\* Child::Expenditure
Expenditure(c, t, FFM, FM) == ExpenditureWith(c, t, FFM, FM, Intake(c, t))

dMassOf(c, rhoFFM, p, growth, expend, I) ==
  LET dFFM(n) == DivFP(MulFP(MulFP(Scale, p[n]), I[n] - expend[n]) + growth[n],
                       rhoFFM[n])
      dFM(n)  == DivFP(MulFP(Scale - p[n], I[n] - expend[n]) - growth[n],
                       c.par.rhoFM)
  IN  <<NumericVector([n \in 1..c.nind |-> dFFM(n)]), NumericVector([n \in 1..c.nind |-> dFM(n)])>>

dMassWith(c, t, FFM, FM, Er, Ir) ==
  IF Er.err # "" THEN Er
  ELSE Ok(dMassOf(c, cRhoFFM(c, FFM), cP(c, FFM, FM), Growth_dynamic(c, t),
                  Er.v, Ir.v))

\* Child::dMass: the rows dFFM and dFM of the matrix Mass
dMass(c, t, FFM, FM) ==
  dMassWith(c, t, FFM, FM, Expenditure(c, t, FFM, FM), Intake(c, t))

(***************************************************************************)
(* Child::rk4.  The locals of one call make up its frame:                  *)
(*   pc       "ready" (not called), "loop" (before the loop test),         *)
(*            "returned", "failed" (an exception left the call)            *)
(*   nsims, i and the arrays TIME, AGE, ModelFFM, ModelFM, ModelBW, one    *)
(*            entry per column: entry s + 1 is column s, a sequence over   *)
(*            the individuals (TIME: one double)                           *)
(*   k        the matrices k1..k4 of the last iteration                    *)
(*   ret      the list returned                                            *)
(* and, kept for the properties only:                                      *)
(*   steps    the loop iterations completed                                *)
(*   stage    the arguments rk4 gave dMass in the last iteration           *)
(*   rows     the intake rows Intake asked for in the last iteration       *)
(*   writes   how often each cell of each array has been assigned          *)
(*   was      the arrays as they were before the last iteration            *)
(*   alone    the frame the last iteration leaves when every step but the  *)
(*            one before it holds other values                             *)
(***************************************************************************)
ArrayNames == {"TIME", "AGE", "ModelFFM", "ModelFM", "ModelBW"}

NoReturn == [Model_Type |-> "none"]

NoCall ==
  [pc |-> "ready", days |-> FZero, nsims |-> 0, i |-> 0,
   TIME |-> <<>>, AGE |-> <<>>, ModelFFM |-> <<>>, ModelFM |-> <<>>,
   ModelBW |-> <<>>, k |-> <<>>, ret |-> NoReturn, err |-> "",
   steps |-> 0, stage |-> <<>>, rows |-> <<>>,
   writes |-> [a \in ArrayNames |-> <<>>], was |-> <<>>, alone |-> <<>>]

\* int nsims = floor(days/dt), for dt # 0
StepCount(c, days) == FFloor(FDiv(days, c.dt))

\* a body weight that leaves the fat mass out
BodyWeightLean(c, FFM, FM) == FFM

\* FFM + FM, elementwise
BodyWeight(c, FFM, FM) == LET f(n) == FFM[n] + FM[n] IN NumericVector([n \in 1..c.nind |-> f(n)])

\* the column of the arrays that holds step s
Column(s) == s + 1

Filled(n, v) == [j \in 1..n |-> v]

\* what the allocation of a vector of negative length raises
negative_length == "negative_length"

\* rk4 from its entry to the loop, with the step count computed
rk4Enter(c, days, nsims) ==
  LET f0 == [NoCall EXCEPT !.days = days, !.nsims = nsims]
      len == nsims + 1
      zeroF == Filled(c.nind, FZero)
      zero  == Filled(c.nind, 0)
      once  == Filled(c.nind, 1)
      w0(a) == IF a = "TIME" THEN <<1>> \o Filled(len - 1, 0)
               ELSE <<once>> \o Filled(len - 1, zero)
  IN  IF len < 0 THEN [f0 EXCEPT !.pc = "failed", !.err = negative_length]
      ELSE IF len = 0
      THEN \* ModelFFM(_,0) of a matrix without columns
           [f0 EXCEPT !.pc = "failed", !.err = index_out_of_bounds]
      ELSE [f0 EXCEPT
              !.pc = "loop", !.i = 1,
              !.ModelFFM = <<c.FFM>> \o Filled(len - 1, zero),
              !.ModelFM  = <<c.FM>> \o Filled(len - 1, zero),
              !.ModelBW  = <<BodyWeight(c, c.FFM, c.FM)>> \o
                           Filled(len - 1, zero),
              !.TIME     = <<FZero>> \o Filled(len - 1, FZero),
              !.AGE      = <<c.age>> \o Filled(len - 1, zeroF),
              !.writes   = [a \in ArrayNames |-> w0(a)]]

\* a loop test that stops one iteration early: i < nsims
LoopStopsEarly(f) == f.i < f.nsims

\* the loop test: i <= nsims
LoopContinues(f) == f.i <= f.nsims

StageAgesBy(c, age, half, full) ==
  <<age,
    NumericVector([n \in 1..c.nind |-> FAdd(age[n], half)]),
    NumericVector([n \in 1..c.nind |-> FAdd(age[n], half)]),
    NumericVector([n \in 1..c.nind |-> FAdd(age[n], full)])>>

\* the age arguments of the four stages:
\* AGE(_,i-1), + 0.5 * dt/365.0 (twice), + dt/365.0
StageAges(c, age) ==
  StageAgesBy(c, age,
              FDiv(FMul(FScale(FromInt(1), -1), c.dt), FromInt(365)),
              FDiv(c.dt, FromInt(365)))

\* the state argument of a stage: y + w * k, elementwise
StageState(c, y, w, k) == LET f(n) == y[n] + MulFP(w, k[n]) IN NumericVector([n \in 1..c.nind |-> f(n)])

\* y + dt * (k1 + 2 k2 + 2 k3 + k4) / 6, elementwise
Rk4Update(c, y, k1, k2, k3, k4) ==
  LET f(n) == y[n] +
              DivFP(MulFP(ToFix(c.dt),
                          k1[n] + MulFP(Dec(2, 0), k2[n]) +
                          MulFP(Dec(2, 0), k3[n]) + k4[n]),
                    Dec(6, 0))
  IN  NumericVector([n \in 1..c.nind |-> f(n)])

\* an elapsed time that counts iterations instead of days
NextTimeUnit(c, T) == FAdd(T, FromInt(1))

\* TIME(i) = TIME(i-1) + dt
NextTime(c, T) == FAdd(T, c.dt)

AddToEach(c, age, d) == LET f(n) == FAdd(age[n], d) IN NumericVector([n \in 1..c.nind |-> f(n)])

\* AGE(_,i) = AGE(_,i-1) + dt/365.0
NextAge(c, age) == AddToEach(c, age, FDiv(c.dt, FromInt(365)))

\* an iteration that also assigns the column it reads
AssignedWithPrevious(i) == {Column(i), Column(i - 1)}

\* the columns one iteration assigns, in each array
Assigned(i) == {Column(i)}

Bump(w, cols, one) ==
  [j \in 1..Len(w) |-> IF j \in cols THEN
                          (IF one THEN w[j] + 1
                           ELSE [n \in 1..Len(w[j]) |-> w[j][n] + 1])
                       ELSE w[j]]

Store(arr, cols, v) == [j \in 1..Len(arr) |-> IF j \in cols THEN v ELSE arr[j]]

RowsAsked(c, ts) ==
  IF c.generalized_logistic THEN <<>>
  ELSE [j \in 1..Len(ts) |-> timeval(c, ts[j])]

\* the factor on the previous stage's k in the state argument of stages
\* 2, 3, 4: 0.5, 0.5, 1 (the source has no dt in it)
StageWeights == <<0, Dec(0, 5000), Dec(0, 5000), Scale>>

\* the arguments of dMass in the stage after those that gave ks
StagePoint(c, f, ts, ks) ==
  LET n  == Len(ks) + 1
      F0 == f.ModelFFM[Column(f.i - 1)]
      M0 == f.ModelFM[Column(f.i - 1)]
  IN  IF n = 1 THEN [t |-> ts[1], FFM |-> F0, FM |-> M0]
      ELSE [t   |-> ts[n],
            FFM |-> StageState(c, F0, StageWeights[n], ks[n - 1][1]),
            FM  |-> StageState(c, M0, StageWeights[n], ks[n - 1][2])]

\* an exception leaves the loop in the stage after those that gave ks
rk4Raise(c, f, ts, ks, e) ==
  [f EXCEPT !.pc = "failed", !.err = e, !.k = ks,
            !.rows = RowsAsked(c, SubSeq(ts, 1, Len(ks) + 1))]

\* the assignments to column i
rk4Store(c, f, ts, ks, pts, cols, prev, FFMn, FMn) ==
  [f EXCEPT
     !.ModelFFM = Store(@, cols, FFMn),
     !.ModelFM  = Store(@, cols, FMn),
     !.ModelBW  = Store(@, cols, BodyWeight(c, FFMn, FMn)),
     !.TIME     = Store(@, cols, NextTime(c, f.TIME[prev])),
     !.AGE      = Store(@, cols, NextAge(c, f.AGE[prev])),
     !.writes   = [a \in ArrayNames |-> Bump(f.writes[a], cols, a = "TIME")],
     !.was      = [TIME |-> f.TIME, AGE |-> f.AGE, ModelFFM |-> f.ModelFFM,
                   ModelFM |-> f.ModelFM, ModelBW |-> f.ModelBW],
     !.k        = ks,
     !.stage    = pts,
     !.rows     = RowsAsked(c, ts),
     !.steps    = @ + 1,
     !.i        = @ + 1]

rk4Assign(c, f, ts, ks, pts, prev) ==
  rk4Store(c, f, ts, ks, pts, Assigned(f.i), prev,
           Rk4Update(c, f.ModelFFM[prev], ks[1][1], ks[2][1], ks[3][1],
                     ks[4][1]),
           Rk4Update(c, f.ModelFM[prev], ks[1][2], ks[2][2], ks[3][2],
                     ks[4][2]))

RECURSIVE rk4Stages(_, _, _, _, _)
rk4StageDone(c, f, ts, ks, pts, r) ==
  IF r.err # "" THEN rk4Raise(c, f, ts, ks, r.err)
  ELSE rk4Stages(c, f, ts, ks \o <<r.v>>, pts)

rk4StageAt(c, f, ts, ks, pts, pt) ==
  rk4StageDone(c, f, ts, ks, pts \o <<pt>>, dMass(c, pt.t, pt.FFM, pt.FM))

\* the stages k1..k4 in turn, then the assignments
rk4Stages(c, f, ts, ks, pts) ==
  IF Len(ks) = Len(ts) THEN rk4Assign(c, f, ts, ks, pts, Column(f.i - 1))
  ELSE rk4StageAt(c, f, ts, ks, pts, StagePoint(c, f, ts, ks))

\* one iteration of rk4's loop, for a frame with i <= nsims
rk4Iterate(c, f) ==
  rk4Stages(c, f, StageAges(c, f.AGE[Column(f.i - 1)]), <<>>, <<>>)

\* the return statement
rk4Return(f) ==
  [f EXCEPT !.pc = "returned",
            !.ret = [Time |-> f.TIME, Age |-> f.AGE,
                     Fat_Free_Mass |-> f.ModelFFM, Fat_Mass |-> f.ModelFM,
                     Body_Weight |-> f.ModelBW, Correct_Values |-> TRUE,
                     Model_Type |-> "Children"]]

\* the next step of a call in its loop
rk4Advance(c, f) ==
  IF LoopContinues(f) THEN rk4Iterate(c, f) ELSE rk4Return(f)

(***************************************************************************)
(* The state: one Child object, the frame of its rk4 call, the last call   *)
(* of a reference curve (ReferenceSpec) and a second object with its call  *)
(* (PairSpec).                                                             *)
(***************************************************************************)
VARIABLES child, call, probe, twin

vars == <<child, call, probe, twin>>

\* the largest step count followed
MaxSteps == 3

\* the decimal literal n / d as a double
Ratio(n, d) == FDiv(FromInt(n), FromInt(d))

Kg(n) == n * Scale

Kcal(n) == n * Scale

\* input cohorts of two: ages, sexes (0 male, 1 female) and categories
AgeInputs ==
  { <<FromInt(5), FromInt(5)>>, <<FromInt(10), FromInt(5)>>,
    <<FromInt(10), Ratio(17998, 1000)>> }

SexCategoryInputs ==
  { [sex |-> <<0, Scale>>, bmiCat |-> <<2, 4>>],
    [sex |-> <<Scale, 0>>, bmiCat |-> <<1, 3>>] }

FFMInput == <<Kg(15), Kg(30)>>

FMInput == <<Kg(3), Kg(12)>>

\* time steps in days: 1/2, 1, 2, -1 and 0
DtInputs ==
  { FScale(FromInt(1), -1), FromInt(1), FromInt(2), FromInt(-1), FZero }

\* horizons in days: 0, 1/2, 1, 2, 3 and -2
DaysInputs ==
  { FZero, FScale(FromInt(1), -1), FromInt(1), FromInt(2), FromInt(3),
    FromInt(-2) }

\* an intake matrix of the given number of rows (one row per step)
IntakeRows(rows) ==
  [r \in 1..rows |-> <<Kcal(1500 + 100 * (r - 1)), Kcal(2100 + 150 * (r - 1))>>]

MatrixChildren ==
  { ChildMatrix(a, sc.sex, sc.bmiCat, FFMInput, FMInput, IntakeRows(rows), dt, FALSE) :
      a \in AgeInputs, sc \in SexCategoryInputs, rows \in {3, 4}, dt \in DtInputs }

\* a constant intake of 1600 kcal (Q = 0, C = 1, nu = 1)
LogisticChildren ==
  { ChildLogistic(a, sc.sex, sc.bmiCat, FFMInput, FMInput, Kcal(1600), 0, 0, 0, Scale, Scale, dt, FALSE) :
      a \in AgeInputs, sc \in SexCategoryInputs, dt \in DtInputs }

Children == MatrixChildren \cup LogisticChildren

\* probe: the last direct call of a method other than rk4, and its result
NoProbe == [op |-> "none"]

\* twin: a second object and its rk4 call, for comparing two runs
NoTwin == [child |-> <<>>, call |-> NoCall]

Init ==
  /\ child \in Children
  /\ call = NoCall
  /\ probe = NoProbe
  /\ twin = NoTwin

\* rk4(d) is called: the step count, the arrays, step 0
Rk4Call(d) ==
  /\ call.pc = "ready"
  /\ probe = NoProbe
  /\ ~FIsZero(child.dt)
  /\ StepCount(child, d) <= MaxSteps
  /\ call' = rk4Enter(child, d, StepCount(child, d))
  /\ UNCHANGED <<child, probe, twin>>

\* what the conversion of an infinity or a NaN to int may give
UndefinedInts == {-2147483647 - 1, 0}

\* rk4(d) with dt = 0: days/dt is infinite or NaN, and its conversion to
\* int is undefined
Rk4CallUndefined(d) ==
  /\ call.pc = "ready"
  /\ probe = NoProbe
  /\ FIsZero(child.dt)
  /\ \E n \in UndefinedInts : call' = rk4Enter(child, d, n)
  /\ UNCHANGED <<child, probe, twin>>

\* an array with every column but column s overwritten by v
OnlyColumn(arr, s, v) ==
  [j \in 1..Len(arr) |-> IF j = Column(s) THEN arr[j] ELSE v]

\* frame f with every step but step i - 1 overwritten
OnlyPrevious(c, f) ==
  [f EXCEPT
     !.TIME     = OnlyColumn(@, f.i - 1, FromInt(-7)),
     !.AGE      = OnlyColumn(@, f.i - 1, Filled(c.nind, FromInt(-7))),
     !.ModelFFM = OnlyColumn(@, f.i - 1, Filled(c.nind, -Scale)),
     !.ModelFM  = OnlyColumn(@, f.i - 1, Filled(c.nind, -Scale)),
     !.ModelBW  = OnlyColumn(@, f.i - 1, Filled(c.nind, -Scale))]

\* step s of the arrays of f
StepOf(f, s) ==
  [TIME |-> f.TIME[Column(s)], AGE |-> f.AGE[Column(s)],
   ModelFFM |-> f.ModelFFM[Column(s)], ModelFM |-> f.ModelFM[Column(s)],
   ModelBW |-> f.ModelBW[Column(s)]]

\* one iteration of the loop
Rk4Step ==
  /\ call.pc = "loop"
  /\ LoopContinues(call)
  /\ call' = [rk4Iterate(child, call) EXCEPT
                !.alone = rk4Iterate(child, OnlyPrevious(child, call))]
  /\ UNCHANGED <<child, probe, twin>>

\* the loop is left and the list returned
Rk4Finish ==
  /\ call.pc = "loop"
  /\ ~LoopContinues(call)
  /\ call' = rk4Return(call)
  /\ UNCHANGED <<child, probe, twin>>

\* steps from the start age at which Intake is called directly
IntakeOffsets == {-1, 0, 1, 5}

\* the ages k steps of dt after the start ages
AgesAfter(c, k) ==
  AddToEach(c, c.age, FDiv(FMul(FromInt(k), c.dt), FromInt(365)))

\* Intake(t) is called on the object (an object serves one call: rk4 or
\* Intake)
IntakeCall(k) ==
  /\ call.pc = "ready"
  /\ ~FIsZero(child.dt)
  /\ probe' = [op |-> "Intake", t |-> AgesAfter(child, k),
               row |-> IF child.generalized_logistic THEN 0
                       ELSE timeval(child, AgesAfter(child, k)),
               result |-> Intake(child, AgesAfter(child, k))]
  /\ UNCHANGED <<child, call, twin>>

Next ==
  \/ \E d \in DaysInputs : Rk4Call(d)
  \/ \E d \in DaysInputs : Rk4CallUndefined(d)
  \/ Rk4Step
  \/ Rk4Finish
  \/ \E k \in IntakeOffsets : IntakeCall(k)

Spec == Init /\ [][Next]_vars

(***************************************************************************)
(* The reference curves on their own: FFMReference(t) and FMReference(t)  *)
(* called on objects of one individual, one per sex and category.          *)
(***************************************************************************)
ReferenceChildren ==
  { ChildLogistic(<<FromInt(5)>>, <<sx>>, <<cat>>, <<Kg(15)>>, <<Kg(3)>>, Kcal(1600), 0, 0, 0, Scale, Scale, FromInt(1), FALSE) :
      sx \in {0, Scale}, cat \in 1..4 }

\* ages in years, in thousandths: below the table, inside it, at its ends
\* and beyond
ReferenceAges ==
  { Ratio(n, 1000) :
      n \in {-1500, 0, 1500, 1999, 2000, 2250, 2500, 3000, 5750, 10000,
             16500, 17000, 17500, 17998, 18000, 18001, 18500, 25000} }

InitReference ==
  /\ child \in ReferenceChildren
  /\ call = NoCall
  /\ probe = NoProbe
  /\ twin = NoTwin

\* FFMReference(t) and FMReference(t) are called on the object
ReferenceCall(t) ==
  /\ probe' = [op |-> "Reference", t |-> t,
               clamped |-> RefClamped(t), rows |-> RefRows(t),
               ffm |-> FFMReference(child, <<t>>),
               fm |-> FMReference(child, <<t>>)]
  /\ UNCHANGED <<child, call, twin>>

NextReference == \E t \in ReferenceAges : ReferenceCall(t)

ReferenceSpec == InitReference /\ [][NextReference]_vars

(***************************************************************************)
(* Two objects that differ in the start age of the first individual only,  *)
(* and rk4 called on both with the same horizon.                           *)
(***************************************************************************)
SameButFirstAge(c, d) ==
  /\ c.age[1] # d.age[1]
  /\ c.age[2] = d.age[2]
  /\ [d EXCEPT !.age = c.age] = c

InitPair ==
  /\ child \in Children
  /\ FGt(child.dt, FZero)
  /\ call = NoCall
  /\ probe = NoProbe
  /\ \E d \in Children :
       /\ SameButFirstAge(child, d)
       /\ twin = [child |-> d, call |-> NoCall]

\* rk4(d) is called on both objects
PairCall(d) ==
  /\ call.pc = "ready"
  /\ twin.call.pc = "ready"
  /\ StepCount(child, d) <= MaxSteps
  /\ call' = rk4Enter(child, d, StepCount(child, d))
  /\ twin' = [twin EXCEPT !.call = rk4Enter(twin.child, d, StepCount(twin.child, d))]
  /\ UNCHANGED <<child, probe>>

\* both calls go on, each until it has returned or failed
PairStep ==
  /\ call.pc = "loop" \/ twin.call.pc = "loop"
  /\ call' = IF call.pc = "loop" THEN rk4Advance(child, call) ELSE call
  /\ twin' = IF twin.call.pc = "loop"
             THEN [twin EXCEPT !.call = rk4Advance(twin.child, twin.call)]
             ELSE twin
  /\ UNCHANGED <<child, probe>>

NextPair ==
  \/ \E d \in DaysInputs : PairCall(d)
  \/ PairStep

PairSpec == InitPair /\ [][NextPair]_vars

(***************************************************************************)
(* One object used again and again: dMass called on it directly, rk4 run   *)
(* on it, and rk4 run a second time with the same horizon.  twin holds the *)
(* object as it was constructed and the frame of the first run; probe the  *)
(* direct calls of dMass.                                                  *)
(***************************************************************************)
\* an object whose rk4 wrote the last state computed back into its members
MembersAdvanced(c, f) ==
  [c EXCEPT !.age = f.AGE[Column(f.steps)],
            !.FFM = f.ModelFFM[Column(f.steps)],
            !.FM  = f.ModelFM[Column(f.steps)]]

\* the members of the object after an iteration of rk4 that left frame f:
\* rk4, dMass and the methods under them assign locals only (the arrays,
\* k1..k4, Mass and the vectors of each method), never a member
Members(c, f) == c

\* the direct calls of dMass followed
MaxProbes == 2

RepeatChildren ==
  { c \in Children :
      /\ c.sex = <<0, Scale>>
      /\ ~FIsZero(c.dt)
      /\ ~c.generalized_logistic => Len(c.EIntake) = 4 }

InitRepeat ==
  /\ child \in RepeatChildren
  /\ call = NoCall
  /\ probe = NoProbe
  /\ twin = [child |-> child, call |-> NoCall]

\* dMass(age, FFM, FM) is called on the object, between runs of rk4
DMassCall ==
  /\ call.pc \in {"ready", "returned"}
  /\ probe.op = "dMass" => probe.n < MaxProbes
  /\ probe' = [op |-> "dMass",
               n |-> IF probe.op = "dMass" THEN probe.n + 1 ELSE 1,
               first |-> IF probe.op = "dMass" THEN probe.first
                         ELSE dMass(child, child.age, child.FFM, child.FM),
               result |-> dMass(child, child.age, child.FFM, child.FM)]
  /\ UNCHANGED <<child, call, twin>>

\* rk4(d) is called on the object for the first time
RepeatCall(d) ==
  /\ call.pc = "ready"
  /\ StepCount(child, d) <= MaxSteps
  /\ call' = rk4Enter(child, d, StepCount(child, d))
  /\ UNCHANGED <<child, probe, twin>>

\* rk4 has returned and is called again with the same horizon
RepeatAgain ==
  /\ call.pc = "returned"
  /\ twin.call = NoCall
  /\ call' = rk4Enter(child, call.days, StepCount(child, call.days))
  /\ twin' = [twin EXCEPT !.call = call]
  /\ UNCHANGED <<child, probe>>

\* one iteration of the loop, and the object it leaves
RepeatStep ==
  /\ call.pc = "loop"
  /\ LoopContinues(call)
  /\ call' = rk4Iterate(child, call)
  /\ child' = Members(child, call')
  /\ UNCHANGED <<probe, twin>>

RepeatFinish ==
  /\ call.pc = "loop"
  /\ ~LoopContinues(call)
  /\ call' = rk4Return(call)
  /\ UNCHANGED <<child, probe, twin>>

NextRepeat ==
  \/ DMassCall
  \/ \E d \in DaysInputs : RepeatCall(d)
  \/ RepeatAgain
  \/ RepeatStep
  \/ RepeatFinish

RepeatSpec == InitRepeat /\ [][NextRepeat]_vars

(***************************************************************************)
(* Properties of rk4 (Spec).                                               *)
(***************************************************************************)
PositiveDt == FGt(child.dt, FZero)

Returned == call.pc = "returned"

\* C1: in the trajectory rk4 returns, and in the arrays after every
\* iteration of its loop, the body weight of every individual at every
\* recorded step is the sum of the fat-free mass and the fat mass of that
\* individual at that step (the sum the program itself computes), step 0
\* included.
BodyWeightIsSum ==
  /\ \A s \in 1..Len(call.ModelBW) : \A n \in 1..child.nind :
       call.ModelBW[s][n] = call.ModelFFM[s][n] + call.ModelFM[s][n]
  /\ Returned =>
       /\ Len(call.ret.Body_Weight) = call.nsims + 1
       /\ \A s \in 1..Len(call.ret.Body_Weight) : \A n \in 1..child.nind :
            call.ret.Body_Weight[s][n] =
              call.ret.Fat_Free_Mass[s][n] + call.ret.Fat_Mass[s][n]

\* a returned trajectory of three steps in which the masses have changed
BodyWeightRecorded ==
  /\ Returned
  /\ call.steps = 3
  /\ call.ret.Fat_Free_Mass[4][1] # call.ret.Fat_Free_Mass[1][1]
  /\ call.ret.Fat_Mass[4][1] > 0
  /\ call.ret.Body_Weight[4][1] =
       call.ret.Fat_Free_Mass[4][1] + call.ret.Fat_Mass[4][1]

FAbs(a) == [a EXCEPT !.s = 0]

\* age0 + TIME/365 in doubles
AgeFromTime(age0, T) == FAdd(age0, FDiv(T, FromInt(365)))

\* C2 as stated: for dt > 0 the returned elapsed times are exactly
\* 0, dt, 2dt, ..., nsims*dt, strictly increasing, and every recorded age
\* is exactly the initial age plus the elapsed time over 365.
TimeAndAgeClosedForm ==
  (Returned /\ PositiveDt) =>
    \A s \in 0..call.nsims :
      /\ call.ret.Time[Column(s)] = FMul(FromInt(s), child.dt)
      /\ s > 0 => FLt(call.ret.Time[Column(s - 1)], call.ret.Time[Column(s)])
      /\ \A n \in 1..child.nind :
           call.ret.Age[Column(s)][n] =
             AgeFromTime(child.age[n], call.ret.Time[Column(s)])

\* C2, amended: for dt > 0 the returned elapsed times start at 0 and each
\* is the double sum of the one before and dt, strictly increasing; the
\* recorded ages start at the initial ages and each is the double sum of
\* the one before and the double dt/365.  The ages agree with initial age
\* plus elapsed time over 365 to within 2^-40 years, not to the last bit.
TimeAndAgeAccumulate ==
  (Returned /\ PositiveDt) =>
    /\ call.ret.Time[Column(0)] = FZero
    /\ call.ret.Age[Column(0)] = child.age
    /\ \A s \in 1..call.nsims :
         /\ call.ret.Time[Column(s)] =
              FAdd(call.ret.Time[Column(s - 1)], child.dt)
         /\ FLt(call.ret.Time[Column(s - 1)], call.ret.Time[Column(s)])
         /\ \A n \in 1..child.nind :
              /\ call.ret.Age[Column(s)][n] =
                   FAdd(call.ret.Age[Column(s - 1)][n],
                        FDiv(child.dt, FromInt(365)))
              /\ FLe(FAbs(FSub(call.ret.Age[Column(s)][n],
                               AgeFromTime(child.age[n],
                                           call.ret.Time[Column(s)]))),
                     FScale(FromInt(1), -40))

\* a returned trajectory whose age at step 2 is not the double
\* age0 + TIME/365
AgeRoundedApart ==
  /\ Returned
  /\ PositiveDt
  /\ call.nsims >= 2
  /\ call.ret.Time[Column(2)] = FMul(FromInt(2), child.dt)
  /\ call.ret.Age[Column(2)][1] #
       AgeFromTime(child.age[1], call.ret.Time[Column(2)])

StagesScaledByDt ==
  (call.pc \in {"loop", "returned"} /\ call.steps >= 1 /\ PositiveDt) =>
    LET prev == Column(call.i - 2)
        new  == Column(call.i - 1)
        F0   == call.ModelFFM[prev]
        M0   == call.ModelFM[prev]
        ts   == StageAges(child, call.AGE[prev])
        half == MulFP(Dec(0, 5000), ToFix(child.dt))
        full == ToFix(child.dt)
        k    == call.k
    IN  /\ call.stage[1] = [t |-> ts[1], FFM |-> F0, FM |-> M0]
        /\ call.stage[2] = [t |-> ts[2],
                            FFM |-> StageState(child, F0, half, k[1][1]),
                            FM  |-> StageState(child, M0, half, k[1][2])]
        /\ call.stage[3] = [t |-> ts[3],
                            FFM |-> StageState(child, F0, half, k[2][1]),
                            FM  |-> StageState(child, M0, half, k[2][2])]
        /\ call.stage[4] = [t |-> ts[4],
                            FFM |-> StageState(child, F0, full, k[3][1]),
                            FM  |-> StageState(child, M0, full, k[3][2])]
        /\ call.ModelFFM[new] =
             Rk4Update(child, F0, k[1][1], k[2][1], k[3][1], k[4][1])
        /\ call.ModelFM[new] =
             Rk4Update(child, M0, k[1][2], k[2][2], k[3][2], k[4][2])

\* row index r is outside the intake matrix of the object
OutsideIntake(r) == r < 0 \/ r >= Len(child.EIntake)

NegativeDtRejected ==
  FLt(child.dt, FZero) =>
    \/ call.pc = "ready"
    \/ /\ call.pc = "failed"
       /\ call.err = "InvalidConfiguration"
       /\ call.TIME = <<>>

\* the columns 0..s of an array
Upto(arr, s) == SubSeq(arr, 1, Column(s))

\* how often the cells of column j of array a have been assigned, if all
\* equally often (-1 otherwise)
WriteCount(f, a, j) ==
  IF a = "TIME" THEN f.writes[a][j]
  ELSE IF \A n \in 1..child.nind : f.writes[a][j][n] = f.writes[a][j][1]
       THEN f.writes[a][j][1] ELSE -1

\* every cell of steps 0..f.steps assigned once, no later cell assigned
WrittenForward(f) ==
  \A a \in ArrayNames : \A j \in 1..Len(f.writes[a]) :
    WriteCount(f, a, j) = IF j <= Column(f.steps) THEN 1 ELSE 0

\* C10: the arrays fill forward.  At every point of rk4, each cell of Time,
\* Age, Fat_Free_Mass, Fat_Mass and Body_Weight of the steps made so far
\* has been assigned exactly once and no cell of a later step has been
\* assigned (so step s is assigned after step s - 1, and at the return
\* every cell has been assigned once); the last iteration has left every
\* step before its own as it was and has given its own step the values
\* computed from the step before it alone; what is returned is the arrays
\* as the loop left them.
FilledForwardOnce ==
  /\ call.TIME # <<>> =>
       /\ WrittenForward(call)
       /\ call.steps <= call.nsims
       /\ call.pc = "loop" => call.i = call.steps + 1
  /\ (call.pc \in {"loop", "returned"} /\ call.steps >= 1) =>
       /\ Upto(call.TIME, call.steps - 1) = Upto(call.was.TIME, call.steps - 1)
       /\ Upto(call.AGE, call.steps - 1) = Upto(call.was.AGE, call.steps - 1)
       /\ Upto(call.ModelFFM, call.steps - 1) =
            Upto(call.was.ModelFFM, call.steps - 1)
       /\ Upto(call.ModelFM, call.steps - 1) =
            Upto(call.was.ModelFM, call.steps - 1)
       /\ Upto(call.ModelBW, call.steps - 1) =
            Upto(call.was.ModelBW, call.steps - 1)
       /\ StepOf(call, call.steps) = StepOf(call.alone, call.steps)
  /\ Returned =>
       /\ call.ret.Time = call.TIME
       /\ call.ret.Age = call.AGE
       /\ call.ret.Fat_Free_Mass = call.ModelFFM
       /\ call.ret.Fat_Mass = call.ModelFM
       /\ call.ret.Body_Weight = call.ModelBW

\* a returned trajectory of four steps, every cell assigned once
AllCellsWrittenOnce ==
  /\ Returned
  /\ call.steps = 3
  /\ Len(call.writes.TIME) = 4
  /\ \A a \in ArrayNames : \A j \in 1..4 : WriteCount(call, a, j) = 1

\* C12 as stated: with the intake matrix and dt > 0, every row rk4 asks
\* Intake for is in 0..nsims; iteration i asks for row i-1 in the stages k1,
\* k2 and k3 and for row i in the stage k4; so a matrix of nsims+1 rows (or
\* more) is never indexed outside its rows, while with a matrix of nsims
\* rows (nsims >= 1) the call is stopped by the index and does not return.
IntakeRowsByStep ==
  (PositiveDt /\ ~child.generalized_logistic /\ call.pc # "ready") =>
    /\ \A j \in 1..Len(call.rows) : call.rows[j] \in 0..call.nsims
    /\ (call.steps >= 1 /\ call.pc # "failed") =>
         call.rows = << call.steps - 1, call.steps - 1, call.steps - 1,
                        call.steps >>
    /\ Len(child.EIntake) >= call.nsims + 1 =>
         \A j \in 1..Len(call.rows) : ~OutsideIntake(call.rows[j])
    /\ (call.nsims >= 1 /\ Len(child.EIntake) = call.nsims) =>
         call.pc # "returned"

(***************************************************************************)
(* Properties of the reference curves (ReferenceSpec).                     *)
(***************************************************************************)
\* the number the table of a curve gives in row r (0-based) for the sex
\* and the category of the object's individual
TableEntry(data, r) ==
  Milli(data[r + 1][2 * child.bmiCat[1] - 1 + child.sex[1] \div Scale])

Referred == probe.op = "Reference"

\* C5: at age 2.0, FFMReference and FMReference give exactly the number in
\* row 0 of their table for the individual's sex and category, and at
\* every age from 18.0 on exactly the number in row 16.
ReferenceAtTableEnds ==
  Referred =>
    /\ probe.t = FromInt(2) =>
         /\ probe.ffm = <<TableEntry(ffm_ref_data, 0)>>
         /\ probe.fm = <<TableEntry(fm_ref_data, 0)>>
    /\ FGe(probe.t, FromInt(18)) =>
         /\ probe.ffm = <<TableEntry(ffm_ref_data, 16)>>
         /\ probe.fm = <<TableEntry(fm_ref_data, 16)>>

\* a lookup at an age beyond 18 that gave the numbers of row 16
ReferenceBeyondTable ==
  /\ Referred
  /\ FGt(probe.t, FromInt(18))
  /\ probe.clamped
  /\ probe.ffm = <<TableEntry(ffm_ref_data, 16)>>
  /\ probe.fm = <<TableEntry(fm_ref_data, 16)>>

\* row[j] + (t - floor(t)) * (row[jHigh] - row[j])
Interpolated(data, t, j, jHigh) ==
  TableEntry(data, j) +
  MulFP(ToFix(FSub(t, FromInt(FFloor(t)))),
        TableEntry(data, jHigh) - TableEntry(data, j))

\* C8: at every age below 18 (ages below 2 and negative ages included, as
\* far as floor(age) is an int), the lookup uses the rows
\* j = max(floor(age), 2) - 2 and jHigh = min(j + 1, 16), both within
\* 0..16, and gives row[j] + (age - floor(age)) * (row[jHigh] - row[j]).
ReferenceInterpolates ==
  (Referred /\ FLt(probe.t, FromInt(18))) =>
    LET j     == Max(FFloor(probe.t), 2) - 2
        jHigh == Min(j + 1, 16)
    IN  /\ ~probe.clamped
        /\ probe.rows.jmin = j
        /\ probe.rows.jmax = jHigh
        /\ j \in 0..16
        /\ jHigh \in 0..16
        /\ probe.ffm = <<Interpolated(ffm_ref_data, probe.t, j, jHigh)>>
        /\ probe.fm = <<Interpolated(fm_ref_data, probe.t, j, jHigh)>>

\* a lookup at a negative age with a fractional part, which used rows 0
\* and 1
ReferenceBelowTable ==
  /\ Referred
  /\ FLt(probe.t, FZero)
  /\ probe.rows.jmin = 0
  /\ probe.rows.jmax = 1
  /\ probe.ffm # <<TableEntry(ffm_ref_data, 0)>>

(***************************************************************************)
(* Properties of two runs (PairSpec).                                      *)
(***************************************************************************)
\* what a finished call has recorded for individual n
TrajectoryOf(f, n) ==
  [pc  |-> f.pc,
   Age |-> [s \in 1..Len(f.AGE) |-> f.AGE[s][n]],
   Fat_Free_Mass |-> [s \in 1..Len(f.ModelFFM) |-> f.ModelFFM[s][n]],
   Fat_Mass      |-> [s \in 1..Len(f.ModelFM) |-> f.ModelFM[s][n]],
   Body_Weight   |-> [s \in 1..Len(f.ModelBW) |-> f.ModelBW[s][n]]]

Finished(f) == f.pc \in {"returned", "failed"}

\* C9 as stated: when two objects differ in the start age of the first
\* individual only, rk4 with the same horizon gives the second individual
\* the same trajectory (age, fat-free mass, fat mass, body weight) on
\* both, for both intake variants.
NoCrossDependency ==
  (Finished(call) /\ Finished(twin.call)) =>
    TrajectoryOf(call, 2) = TrajectoryOf(twin.call, 2)

=============================================================================
